---- MODULE Spec2Model ----
(***************************************************************************)
(* dossier: commit harvesting over three hosting providers (github.go,     *)
(* gitlab.go, bitbucket.go) and the detection pipeline they share.         *)
(*                                                                         *)
(* Each program is sequential: one outstanding HTTP request at a time.     *)
(* The model has one action per loop iteration / call site of each driver; *)
(* the provider's answers (the environment) are drawn from bounded sets.   *)
(* Strings are TLA+ strings (Len, SubSeq and \o are the only operations    *)
(* used on them).                                                          *)
(***************************************************************************)
EXTENDS Integers, Sequences, FiniteSets, TLC

(***************************************************************************)
(* Bounds of the model                                                     *)
(***************************************************************************)
\* largest number of items the provider puts in one page
MaxPageLen == 2
\* number of commits in one history held by the provider
HistLen == 3
\* number of repositories / projects the provider holds for the user
NumRepos == 3
\* longest chain of next-cursors the Bitbucket provider hands out
MaxCursor == 2
\* largest number of requests of one run the provider lets fail
MaxFailures == 1

(***************************************************************************)
(* Program constants                                                       *)
(***************************************************************************)
StatusOK == 200
StatusSearchCap == 422

Providers == {"github", "gitlab", "bitbucket"}

(***************************************************************************)
(* strings package, as far as the code uses it                             *)
(***************************************************************************)
Min(a, b) == IF a < b THEN a ELSE b

\* strings.Contains
Contains(s, sub) ==
    \E i \in 1..(Len(s) - Len(sub) + 1) : SubSeq(s, i, i + Len(sub) - 1) = sub

\* strings.Index, 1-based; 0 when absent
Index(s, sub) ==
    LET hits == {i \in 1..(Len(s) - Len(sub) + 1) : SubSeq(s, i, i + Len(sub) - 1) = sub}
    IN  IF hits = {} THEN 0 ELSE CHOOSE i \in hits : \A j \in hits : i <= j

\* strings.LastIndex, 1-based; 0 when absent
LastIndex(s, sub) ==
    LET hits == {i \in 1..(Len(s) - Len(sub) + 1) : SubSeq(s, i, i + Len(sub) - 1) = sub}
    IN  IF hits = {} THEN 0 ELSE CHOOSE i \in hits : \A j \in hits : i >= j

\* strings.HasSuffix
HasSuffix(s, suf) ==
    Len(s) >= Len(suf) /\ SubSeq(s, Len(s) - Len(suf) + 1, Len(s)) = suf

\* strings.TrimSuffix
TrimSuffix(s, suf) ==
    IF HasSuffix(s, suf) THEN SubSeq(s, 1, Len(s) - Len(suf)) ELSE s

\* strings.TrimSpace (blanks only)
TrimSpace(s) ==
    LET keep == {i \in 1..Len(s) : SubSeq(s, i, i) # " "}
    IN  IF keep = {} THEN ""
        ELSE SubSeq(s, CHOOSE i \in keep : \A j \in keep : i <= j,
                       CHOOSE i \in keep : \A j \in keep : i >= j)

\* every character of s is one of the characters of alphabet
AllIn(s, alphabet) == \A i \in 1..Len(s) : Contains(alphabet, SubSeq(s, i, i))

Digits == "0123456789"

(***************************************************************************)
(* regexp: the patterns of the model are literal strings, for which        *)
(* re.MatchString is the unanchored substring test.                        *)
(***************************************************************************)
MatchString(re, text) == Contains(text, re)

(***************************************************************************)
(* Configuration loaded once in main: signatures.yaml and blacklist.txt    *)
(***************************************************************************)
cfg ==
    [OperatingSystems |-> << [ID |-> "arch",   Regex |-> "arch linux"],
                             [ID |-> "ubuntu", Regex |-> "ubuntu"] >>,
     Utilities        |-> << [ID |-> "zsh", Regex |-> "zsh"],
                             [ID |-> "vim", Regex |-> "vim"] >>]

blacklist == << "noreply" >>

\* the loop left at the first match
SearchPatterns_FirstHit(text, patterns) ==
    LET Hit(pat) == MatchString(pat.Regex, text)
        matches  == SelectSeq(patterns, Hit)
    IN  IF matches = << >> THEN << >> ELSE << matches[1].ID >>

\* SearchPatterns: the IDs of the patterns that match, in pattern order
SearchPatterns(text, patterns) ==
    LET Hit(pat) == MatchString(pat.Regex, text)
        matches  == SelectSeq(patterns, Hit)
    IN  [i \in 1..Len(matches) |-> matches[i].ID]

\* IsBlacklisted: some blacklist expression matches the address
IsBlacklisted(email, bl) ==
    \E i \in 1..Len(bl) : MatchString(bl[i], email)

(***************************************************************************)
(* Email validation.  net/mail, publicsuffix and net/url are libraries;    *)
(* they are modelled on the address forms the model's commits carry:       *)
(* a bare addr-spec, or a display name followed by <addr-spec>.            *)
(***************************************************************************)
ATextChars == "abcdefghijklmnopqrstuvwxyzABCDEFGHIJKLMNOPQRSTUVWXYZ0123456789!#$%&*+-/=?^_~"

\* a dot-atom: atext runs separated by single dots
IsDotAtom(s) ==
    /\ s # ""
    /\ AllIn(s, ATextChars \o ".")
    /\ SubSeq(s, 1, 1) # "."
    /\ SubSeq(s, Len(s), Len(s)) # "."
    /\ ~Contains(s, "..")

\* an addr-spec local@domain with exactly one "@"
IsAddrSpec(s) ==
    LET at == Index(s, "@")
    IN  /\ at > 0
        /\ IsDotAtom(SubSeq(s, 1, at - 1))
        /\ IsDotAtom(SubSeq(s, at + 1, Len(s)))

\* mail.ParseAddress: [ok, Address]
ParseAddress(addr) ==
    LET t  == TrimSpace(addr)
        lt == Index(t, "<")
    IN  IF lt > 0 /\ HasSuffix(t, ">")
        THEN LET inner == SubSeq(t, lt + 1, Len(t) - 1)
                 name  == SubSeq(t, 1, lt - 1)
             IN  IF IsAddrSpec(inner) /\ AllIn(name, ATextChars \o " ")
                 THEN [ok |-> TRUE, Address |-> inner]
                 ELSE [ok |-> FALSE, Address |-> ""]
        ELSE IF IsAddrSpec(t)
             THEN [ok |-> TRUE, Address |-> t]
             ELSE [ok |-> FALSE, Address |-> ""]

\* the public suffix list, as far as the model's domains need it
IcannSuffixes   == {"com", "org", "uk", "co.uk"}
PrivateSuffixes == {"github.io"}

\* publicsuffix.PublicSuffix: [eTLD, icann]; the longest listed suffix,
\* else the last label under the default rule, which is not ICANN-managed
PublicSuffix(domain) ==
    LET IsSuffixOf(x) == domain = x \/ HasSuffix(domain, "." \o x)
        listed == {x \in IcannSuffixes \cup PrivateSuffixes : IsSuffixOf(x)}
        dot    == LastIndex(domain, ".")
    IN  IF listed # {}
        THEN LET best == CHOOSE x \in listed : \A y \in listed : Len(x) >= Len(y)
             IN  [eTLD |-> best, icann |-> best \in IcannSuffixes]
        ELSE [eTLD |-> SubSeq(domain, dot + 1, Len(domain)), icann |-> FALSE]

\* url.Parse("http://" + domain) fails on a percent escape in the host
URLParseOK(domain) == ~Contains(domain, "%")

\* the public-suffix check left out
IsValidEmail_AnySuffix(addr) ==
    IF ~Contains(addr, "@") THEN FALSE
    ELSE LET parsed == ParseAddress(addr)
         IN  IF ~parsed.ok THEN FALSE
             ELSE LET at     == LastIndex(parsed.Address, "@")
                      domain == SubSeq(parsed.Address, at + 1, Len(parsed.Address))
                  IN  IF at = 0 THEN FALSE
                      ELSE IF ~Contains(domain, ".") THEN FALSE
                      ELSE IF ~URLParseOK(domain) THEN FALSE
                      ELSE TRUE

IsValidEmail(addr) ==
    IF ~Contains(addr, "@") THEN FALSE
    ELSE LET parsed == ParseAddress(addr)
         IN  IF ~parsed.ok THEN FALSE
             ELSE LET at     == LastIndex(parsed.Address, "@")
                      domain == SubSeq(parsed.Address, at + 1, Len(parsed.Address))
                      ps     == PublicSuffix(domain)
                  IN  IF at = 0 THEN FALSE
                      ELSE IF ~Contains(domain, ".") THEN FALSE
                      ELSE IF ps.eTLD = "" \/ ~ps.icann THEN FALSE
                      ELSE IF ~URLParseOK(domain) THEN FALSE
                      ELSE TRUE

(***************************************************************************)
(* Timestamps: time.Parse(time.RFC3339, s) and t.Format(... MST)           *)
(***************************************************************************)
IsRFC3339(s) ==
    /\ Len(s) >= 20
    /\ AllIn(SubSeq(s, 1, 4) \o SubSeq(s, 6, 7) \o SubSeq(s, 9, 10), Digits)
    /\ SubSeq(s, 5, 5) = "-" /\ SubSeq(s, 8, 8) = "-" /\ SubSeq(s, 11, 11) = "T"
    /\ AllIn(SubSeq(s, 12, 13) \o SubSeq(s, 15, 16) \o SubSeq(s, 18, 19), Digits)
    /\ SubSeq(s, 14, 14) = ":" /\ SubSeq(s, 17, 17) = ":"
    /\ \/ SubSeq(s, 20, Len(s)) = "Z"
       \/ /\ Len(s) = 25
          /\ SubSeq(s, 20, 20) \in {"+", "-"}
          /\ AllIn(SubSeq(s, 21, 22) \o SubSeq(s, 24, 25), Digits)
          /\ SubSeq(s, 23, 23) = ":"

\* the date as printed: reformatted when it parses, the raw string otherwise
FormatDate(commitDate) ==
    IF IsRFC3339(commitDate)
    THEN SubSeq(commitDate, 1, 10) \o " " \o SubSeq(commitDate, 12, 19) \o " "
         \o (IF SubSeq(commitDate, 20, Len(commitDate)) = "Z" THEN "UTC"
             ELSE SubSeq(commitDate, 20, 22) \o SubSeq(commitDate, 24, 25))
    ELSE commitDate

(***************************************************************************)
(* The commits the providers hold.  One record shape carries the fields of *)
(* the three payloads: CommitItem (sha, url, author*, committer*, message),*)
(* GitLabCommit (message as Title, author*, date) and BitbucketCommit      *)
(* (date, message, raw, url as Links.HTML.Href).                           *)
(***************************************************************************)
Pool ==
    << [sha |-> "a1", url |-> "u/a1", date |-> "2024-01-02T03:04:05Z",
        message |-> "fix arch linux zsh",
        authorName |-> "Al", authorEmail |-> "al@ex.com",
        committerName |-> "GitHub", committerEmail |-> "noreply@github.com",
        raw |-> "Al <al@ex.com>"],
       [sha |-> "b2", url |-> "u/b2", date |-> "yesterday",
        message |-> "init",
        authorName |-> "Bo", authorEmail |-> "bo@localhost",
        committerName |-> "Bo", committerEmail |-> "bo@localhost",
        raw |-> "Bo"],
       [sha |-> "c3", url |-> "u/c3", date |-> "2024-05-06T07:08:09+02:00",
        message |-> "use vim",
        authorName |-> "Cy", authorEmail |-> "cy@noreply.ex.org",
        committerName |-> "Di", committerEmail |-> "di@corp.co.uk",
        raw |-> "Cy <cy@ex.org> (x)"],
       [sha |-> "d4", url |-> "u/d4", date |-> "2024-07-08T09:10:11Z",
        message |-> "ubuntu box",
        authorName |-> "Ev", authorEmail |-> "",
        committerName |-> "Ev", committerEmail |-> "ev@me.github.io",
        raw |-> "Ev <ev@noreply.ex.com>"],
       [sha |-> "e5", url |-> "u/e5", date |-> "2024-09-10",
        message |-> "<vim>",
        authorName |-> "zsh", authorEmail |-> "noreply",
        committerName |-> "Fy", committerEmail |-> "fy@ex.com",
        raw |-> "zsh <fy@ex.com>"] >>

\* further commits, for ProcessCommits applied on its own: one that matches
\* two OS patterns and one Utility pattern and has no identity that passes,
\* one whose two identities both pass, and one whose date does not parse and
\* holds text that a Utility pattern matches
MoreCommits ==
    << [sha |-> "f6", url |-> "u/f6", date |-> "2024-11-12T13:14:15Z",
        message |-> "arch linux on ubuntu with zsh",
        authorName |-> "Fy", authorEmail |-> "",
        committerName |-> "GitHub", committerEmail |-> "noreply@github.com",
        raw |-> "Fy"],
       [sha |-> "h8", url |-> "u/h8", date |-> "2024-12-13T14:15:16Z",
        message |-> "ubuntu vim",
        authorName |-> "Hal", authorEmail |-> "hal@ex.com",
        committerName |-> "Ida", committerEmail |-> "ida@ex.org",
        raw |-> "Hal <hal@ex.com>"],
       [sha |-> "g7", url |-> "u/g7", date |-> "2024-09-10 zsh",
        message |-> "ubuntu",
        authorName |-> "Gil", authorEmail |-> "gil@ex.com",
        committerName |-> "Gil", committerEmail |-> "gil@ex.com",
        raw |-> "Gil <gil@ex.com>"] >>

\* every commit of the model
Commits == Pool \o MoreCommits

\* names of the repositories the provider may hold
RepoNames == << "r1", "r2", "r3", "r4", "r5" >>

\* the history of the i-th source: HistLen commits of the pool, all distinct
History(i) == [k \in 1..HistLen |-> Pool[((i + k - 1) % Len(Pool)) + 1]]

\* s reversed (the definition, not the program's loop)
Rev(s) == [k \in 1..Len(s) |-> s[Len(s) + 1 - k]]

RECURSIVE Flatten(_)
\* the concatenation of a sequence of sequences
Flatten(ss) == IF ss = << >> THEN << >> ELSE Head(ss) \o Flatten(Tail(ss))

(***************************************************************************)
(* encoding/json: json.Marshal of a CommitItem (github.go:198).            *)
(* Strings are quoted; the quote, the backslash and, as Marshal does by    *)
(* default, the HTML characters are escaped.                               *)
(***************************************************************************)
RECURSIVE JSONEscape(_)
JSONEscape(s) ==
    IF s = "" THEN ""
    ELSE LET c == SubSeq(s, 1, 1)
         IN  (CASE c = "<"  -> "\\u003c"
                [] c = ">"  -> "\\u003e"
                [] c = "&"  -> "\\u0026"
                [] c = "\"" -> "\\\""
                [] c = "\\" -> "\\\\"
                [] OTHER    -> c) \o JSONEscape(Tail(s))

JSONString(s) == "\"" \o JSONEscape(s) \o "\""

JSONIdentity(name, email, date) ==
    "{\"name\":" \o JSONString(name) \o ",\"email\":" \o JSONString(email)
    \o ",\"date\":" \o JSONString(date) \o "}"

\* the committer's date is the author's in the model's commits
MarshalCommitItem(c) ==
    "{\"sha\":" \o JSONString(c.sha) \o ",\"html_url\":" \o JSONString(c.url)
    \o ",\"commit\":{\"author\":" \o JSONIdentity(c.authorName, c.authorEmail, c.date)
    \o ",\"committer\":" \o JSONIdentity(c.committerName, c.committerEmail, c.date)
    \o ",\"message\":" \o JSONString(c.message) \o "}}"

(***************************************************************************)
(* Commit processing (the detection pipeline).  A finding is one block of  *)
(* printed lines; fields a block does not print are "".                    *)
(***************************************************************************)
Finding(kind, id, email, name, date, repo, location) ==
    [kind |-> kind, id |-> id, email |-> email, name |-> name,
     date |-> date, repo |-> repo, location |-> location]

\* the blacklist test left out
EmailPasses_NoBlacklist(email) == IsValidEmail(email)

\* the condition under which an identity's Email block is printed
EmailPasses(email) == IsValidEmail(email) /\ ~IsBlacklisted(email, blacklist)

\* bitbucket.go parseRawAuthor: <<name, email>>
parseRawAuthor(raw) ==
    IF Contains(raw, "<") /\ Contains(raw, ">")
    THEN LET lt == Index(raw, "<")
         IN  << TrimSpace(SubSeq(raw, 1, lt - 1)),
                TrimSuffix(SubSeq(raw, lt + 1, Len(raw)), ">") >>
    ELSE << raw, "" >>

\* the signature blocks printed before the Email blocks
GitHub_ProcessCommit_SignaturesFirst(c) ==
    LET commitText == MarshalCommitItem(c)
        commitDate == FormatDate(c.date)
        who == << [Name |-> c.authorName, Email |-> c.authorEmail],
                  [Name |-> c.committerName, Email |-> c.committerEmail] >>
        Passes(w) == EmailPasses(w.Email)
        emails == SelectSeq(who, Passes)
        os == SearchPatterns(commitText, cfg.OperatingSystems)
        ut == SearchPatterns(commitText, cfg.Utilities)
    IN  [i \in 1..Len(os) |->
            Finding("OS", os[i], c.authorEmail, "", commitDate, "", c.url)]
        \o [i \in 1..Len(ut) |->
            Finding("Utility", ut[i], c.authorEmail, "", commitDate, "", c.url)]
        \o [i \in 1..Len(emails) |->
            Finding("Email", "", emails[i].Email, emails[i].Name, commitDate, "", c.url)]

\* one iteration of github.go ProcessCommits
GitHub_ProcessCommit(c) ==
    LET commitText == MarshalCommitItem(c)
        commitDate == FormatDate(c.date)
        who == << [Name |-> c.authorName, Email |-> c.authorEmail],
                  [Name |-> c.committerName, Email |-> c.committerEmail] >>
        Passes(w) == EmailPasses(w.Email)
        emails == SelectSeq(who, Passes)
        os == SearchPatterns(commitText, cfg.OperatingSystems)
        ut == SearchPatterns(commitText, cfg.Utilities)
    IN  [i \in 1..Len(emails) |->
            Finding("Email", "", emails[i].Email, emails[i].Name, commitDate, "", c.url)]
        \o [i \in 1..Len(os) |->
            Finding("OS", os[i], c.authorEmail, "", commitDate, "", c.url)]
        \o [i \in 1..Len(ut) |->
            Finding("Utility", ut[i], c.authorEmail, "", commitDate, "", c.url)]

\* the Email block printed for every valid address, blacklisted or not
GitLab_ProcessCommit_Unfiltered(c, projectURL) ==
    LET commitDate == FormatDate(c.date)
        os == SearchPatterns(c.message, cfg.OperatingSystems)
        ut == SearchPatterns(c.message, cfg.Utilities)
    IN  (IF IsValidEmail(c.authorEmail)
         THEN << Finding("Email", "", c.authorEmail, c.authorName, commitDate, projectURL, "") >>
         ELSE << >>)
        \o [i \in 1..Len(os) |->
            Finding("OS", os[i], c.authorEmail, c.authorName, commitDate, projectURL, "")]
        \o [i \in 1..Len(ut) |->
            Finding("Utility", ut[i], c.authorEmail, c.authorName, commitDate, projectURL, "")]

\* one iteration of gitlab.go ProcessCommits
GitLab_ProcessCommit(c, projectURL) ==
    LET commitDate == FormatDate(c.date)
        os == SearchPatterns(c.message, cfg.OperatingSystems)
        ut == SearchPatterns(c.message, cfg.Utilities)
    IN  (IF EmailPasses(c.authorEmail)
         THEN << Finding("Email", "", c.authorEmail, c.authorName, commitDate, projectURL, "") >>
         ELSE << >>)
        \o [i \in 1..Len(os) |->
            Finding("OS", os[i], c.authorEmail, c.authorName, commitDate, projectURL, "")]
        \o [i \in 1..Len(ut) |->
            Finding("Utility", ut[i], c.authorEmail, c.authorName, commitDate, projectURL, "")]

\* the signature blocks printed only for a commit whose identity passes
Bitbucket_ProcessCommit_Gated(c, repoName) ==
    LET commitDate == FormatDate(c.date)
        parsed == parseRawAuthor(c.raw)
        name  == parsed[1]
        email == parsed[2]
        commitText == c.message \o " " \o c.raw \o " " \o repoName
        os == SearchPatterns(commitText, cfg.OperatingSystems)
        ut == SearchPatterns(commitText, cfg.Utilities)
    IN  IF EmailPasses(email)
        THEN << Finding("Email", "", email, name, commitDate, repoName, c.url) >>
             \o [i \in 1..Len(os) |->
                 Finding("OS", os[i], "", "", commitDate, repoName, c.url)]
             \o [i \in 1..Len(ut) |->
                 Finding("Utility", ut[i], "", "", commitDate, repoName, c.url)]
        ELSE << >>

\* one iteration of bitbucket.go ProcessCommits
Bitbucket_ProcessCommit(c, repoName) ==
    LET commitDate == FormatDate(c.date)
        parsed == parseRawAuthor(c.raw)
        name  == parsed[1]
        email == parsed[2]
        commitText == c.message \o " " \o c.raw \o " " \o repoName
        os == SearchPatterns(commitText, cfg.OperatingSystems)
        ut == SearchPatterns(commitText, cfg.Utilities)
    IN  (IF EmailPasses(email)
         THEN << Finding("Email", "", email, name, commitDate, repoName, c.url) >>
         ELSE << >>)
        \o [i \in 1..Len(os) |->
            Finding("OS", os[i], "", "", commitDate, repoName, c.url)]
        \o [i \in 1..Len(ut) |->
            Finding("Utility", ut[i], "", "", commitDate, repoName, c.url)]

\* one iteration of ProcessCommits of program prov; label is the projectURL
\* (GitLab) or repoName (Bitbucket) argument
ProcessCommit(prov, c, label) ==
    CASE prov = "github" -> GitHub_ProcessCommit(c)
      [] prov = "gitlab" -> GitLab_ProcessCommit(c, label)
      [] OTHER           -> Bitbucket_ProcessCommit(c, label)

\* the labels main passes: none, r.Name, p.WebURL
Labels ==
    {""} \cup {RepoNames[i] : i \in 1..Len(RepoNames)}
         \cup {"web/" \o RepoNames[i] : i \in 1..Len(RepoNames)}
         \cup {"vimrc", "web/vimrc"}

\* ProcessCommit of every commit the providers hold, computed once: the
\* blocks printed for a commit depend on the commit and the label alone
Blocks ==
    [prov \in Providers |->
        [i \in 1..Len(Commits) |-> [l \in Labels |-> ProcessCommit(prov, Commits[i], l)]]]

PoolIndex(c) == CHOOSE i \in 1..Len(Commits) : Commits[i] = c

\* ProcessCommits of the three programs: the blocks printed for items, in order
ProcessCommits(prov, items, label) ==
    Flatten([i \in 1..Len(items) |-> Blocks[prov][PoolIndex(items[i])][label]])

(***************************************************************************)
(* The provider (environment).  It holds a list of repositories and one    *)
(* commit history per repository; a successful page is the next slice of   *)
(* the list asked for, of any length up to MaxPageLen.                     *)
(***************************************************************************)
username == "u"

\* every second repository is a fork
ServerRepos ==
    [i \in 1..NumRepos |->
        [name |-> RepoNames[i], web |-> "web/" \o RepoNames[i], fork |-> (i % 2 = 0)]]

ServerUsers == << [ID |-> 7] >>

RepoIndex(name) == CHOOSE i \in 1..Len(RepoNames) : RepoNames[i] = name

\* the global search orders server-side: ascending is the reverse of descending
SearchHistory(asc) == IF asc THEN Rev(History(0)) ELSE History(0)

\* the list a pass pages through
ServerData(kind, repo, asc) ==
    CASE kind = "search"  -> SearchHistory(asc)
      [] kind = "user"    -> ServerUsers
      [] kind = "repos"   -> ServerRepos
      [] OTHER            -> History(RepoIndex(repo))

\* statuses other than 200 the provider answers with
ErrStatuses == {204, 404, 422}

EmptyBody == [decodable |-> TRUE, items |-> << >>, next |-> ""]

\* the Bitbucket next-cursor URLs
CursorURLs == [n \in 1..MaxCursor |-> "next/" \o ToString(n)]

CursorOf(u) ==
    IF \E n \in 1..MaxCursor : CursorURLs[n] = u
    THEN CHOOSE n \in 1..MaxCursor : CursorURLs[n] = u
    ELSE 0

\* the next fields a Bitbucket page may carry for a request of URL u: none,
\* or the following cursor of the chain; a provider that hands cursors out
\* again (again = TRUE) may answer with any cursor, one it gave before too
NextURLs(u, again) ==
    {""} \cup (IF again THEN {CursorURLs[n] : n \in 1..MaxCursor}
              ELSE IF CursorOf(u) < MaxCursor THEN {CursorURLs[CursorOf(u) + 1]}
              ELSE {})

\* makeRequest: what one GET may return, given the list paged through and
\* the number of its items already served.  A failure status still carries
\* a body that would decode as a page.  A page-number listing (cursor FALSE)
\* answers an empty page only past the end of the list; a cursor listing may
\* put any slice, empty too, in any page.
Responses(data, pos, cursor, nexts, mayFail) ==
    LET rem      == Len(data) - pos
        Slice(k) == SubSeq(data, pos + 1, pos + k)
        least    == IF cursor THEN 0 ELSE Min(1, rem)
        failures ==
            {[err |-> TRUE, status |-> 0, body |-> EmptyBody]}
            \cup {[err |-> FALSE, status |-> st,
                   body |-> [decodable |-> TRUE, items |-> Slice(Min(1, rem)), next |-> ""]]
                  : st \in ErrStatuses}
            \cup {[err |-> FALSE, status |-> StatusOK,
                   body |-> [decodable |-> FALSE, items |-> << >>, next |-> ""]]}
    IN  (IF mayFail THEN failures ELSE {})
        \cup {[err |-> FALSE, status |-> StatusOK,
               body |-> [decodable |-> TRUE, items |-> Slice(k), next |-> n]]
              : k \in least..Min(MaxPageLen, rem), n \in nexts}

(***************************************************************************)
(* State                                                                   *)
(***************************************************************************)
VARIABLES
    provider,    \* which of the three programs runs
    pc,          \* position of the program
    ascending,   \* parameter of the running ScanGlobalCommits / Scan*Commits
    page,        \* local page of the running loop (GitHub, GitLab)
    url,         \* local url of the running loop (Bitbucket)
    userID,      \* main's userID (GitLab)
    repos,       \* local repos / projects of the listing, then main's
    ri,          \* index of main's range loop over repos
    allCommits,  \* local allCommits of the scan (GitLab, Bitbucket)
    out,         \* the finding blocks printed so far
    lastDiag,    \* the diagnostic printed by the last step, if any
    lastReq,     \* the last request sent
    lastResp,    \* the answer to it
    passes,      \* history: one record per pass (search, listing, scan)
    endless,     \* the provider may hand out a next-cursor it handed out before
    fn,          \* the function applied on its own ("" in a run of a program)
    args,        \* its arguments
    ret          \* << its result >> once it has returned, << >> before

vars == << provider, pc, ascending, page, url, userID, repos, ri, allCommits,
           out, lastDiag, lastReq, lastResp, passes, endless, fn, args, ret >>

\* what no step of a program changes
aside == << endless, fn, args, ret >>

NoDiag == [what |-> "", status |-> 0, body |-> EmptyBody]
Diag(what, resp) == [what |-> what, status |-> resp.status, body |-> resp.body]

NoReq == [kind |-> "", target |-> "", order |-> "", page |-> 0, url |-> ""]
Req(kind, target, order, pg, u) ==
    [kind |-> kind, target |-> target, order |-> order, page |-> pg, url |-> u]

\* history bookkeeping: the running pass is the last record
Pass(kind, repo, asc) ==
    [kind |-> kind, repo |-> repo, asc |-> asc,
     served |-> << >>, handed |-> << >>, status |-> "running"]
CurPass == passes[Len(passes)]
Served == CurPass.served
PassUpdate(servedItems, handedItems, status) ==
    [passes EXCEPT ![Len(passes)] =
        [@ EXCEPT !.served = @ \o servedItems,
                  !.handed = @ \o handedItems,
                  !.status = status]]

\* the provider lets at most MaxFailures requests of a run fail
MayFail ==
    Cardinality({i \in 1..Len(passes) : passes[i].status \in {"failed", "cap"}}) < MaxFailures

(***************************************************************************)
(* Pieces of the loops, shared by the three programs                       *)
(***************************************************************************)
\* only server errors taken as failures
StatusFails_Only5xx(status) == status >= 500

\* "if status != 200"
StatusFails(status) == status # StatusOK

\* how one iteration treats the answer
Outcome(resp) ==
    IF resp.err THEN "error"
    ELSE IF StatusFails(resp.status) THEN "api"
    ELSE IF ~resp.body.decodable THEN "parse"
    ELSE "page"

\* the page put in front
AppendPage_Prepend(buf, items) == items \o buf

\* "repos = append(repos, tmp...)", "allCommits = append(allCommits, commits...)"
AppendPage(buf, items) == buf \o items

RECURSIVE Swap(_, _, _)
\* "for i, j := 0, len-1; i < j; i, j = i+1, j-1 { s[i], s[j] = s[j], s[i] }"
Swap(s, i, j) ==
    IF i < j
    THEN Swap([s EXCEPT ![i] = s[j], ![j] = s[i]], i + 1, j - 1)
    ELSE s

\* the swap loop stopping one element short
ReverseIfAscending_OffByOne(asc, commits) ==
    IF asc THEN Swap(commits, 1, Len(commits) - 1) ELSE commits

\* "if ascending { reverse allCommits }"
ReverseIfAscending(asc, commits) ==
    IF asc THEN Swap(commits, 1, Len(commits)) ELSE commits

\* no project skipped
SkipFork_Never(r) == FALSE

\* "if r.Fork { continue }", "if p.ForkedFromProject != nil { continue }"
SkipFork(r) == r.fork

(***************************************************************************)
(* main's sequencing: where main goes on when a callee returns             *)
(***************************************************************************)
\* the descending search left out
MainAfterSearch_SkipDescending(asc) == "main_repos"

\* after ScanGlobalCommits(ascending) returns (github.go:370-378)
MainAfterSearch(asc) == IF asc THEN "main_desc" ELSE "main_repos"

\* the second pass over a project left out
MainAfterScan_OnePass(prov, asc) == "main_loop"

\* after a scan of one repository / project returns: GitLab's main calls
\* ScanProjectCommits twice per project, the others go to the next one
MainAfterScan(prov, asc) ==
    IF prov = "gitlab" /\ asc THEN "main_second" ELSE "main_loop"

\* the failure of one scan ends the program
OnScanFailure_Fatal(prov, asc) == "exit1"

\* the plain "return" of the failure branches of a scan
OnScanFailure(prov, asc) == MainAfterScan(prov, asc)

\* the search cap treated as fatal
OnSearchCap_Fatal(asc) == "exit1"

\* "return" under "if status == 422" in ScanGlobalCommits
OnSearchCap(asc) == MainAfterSearch(asc)

\* the plain "return" of the other failure branches of ScanGlobalCommits
OnSearchFailure(asc) == MainAfterSearch(asc)

\* "return nil, err" of a listing, then main's "os.Exit(1)"
OnListingFailure == "exit1"

\* the partial list handed on
ListingOnError_KeepPartial(partial) == partial

\* the list a failed listing hands to main: nil
ListingOnError(partial) == << >>

\* go to position `to` of main; "main_loop" is the top of the next iteration
Return(to) ==
    /\ pc' = to
    /\ ri' = IF to = "main_loop" THEN ri + 1 ELSE ri

\* a callee starts: its locals, and a new record in the history
Call(callee, kind, repo, asc) ==
    /\ pc' = callee
    /\ ascending' = asc
    /\ page' = 1
    /\ url' = (IF provider = "bitbucket" THEN kind \o "/" \o repo \o "?pagelen=100" ELSE "")
    /\ allCommits' = << >>
    /\ passes' = Append(passes, Pass(kind, repo, asc))
    /\ lastDiag' = NoDiag

DiagText(prov, outcome) ==
    CASE outcome = "error" -> "Error"
      [] outcome = "api"   -> prov \o " API error"
      [] OTHER             -> "Error parsing response"

\* the failed request of a listing asked again
ListingFails_Retry(resp) ==
    /\ Outcome(resp) # "page"
    /\ lastDiag' = Diag("Error fetching: " \o DiagText(provider, Outcome(resp)), resp)
    /\ UNCHANGED << pc, ri, passes, ascending, page, url, userID, repos, allCommits, out >>

\* a listing fails on this answer: the error goes up to main, which prints it
\* and exits
ListingFails(resp) ==
    /\ Outcome(resp) # "page"
    /\ repos' = ListingOnError(repos)
    /\ lastDiag' = Diag("Error fetching: " \o DiagText(provider, Outcome(resp)), resp)
    /\ passes' = PassUpdate(<< >>, << >>, "failed")
    /\ pc' = OnListingFailure
    /\ UNCHANGED << ascending, page, url, userID, ri, allCommits, out >>

\* the failed request of a scan asked again
ScanFails_Retry(resp) ==
    /\ Outcome(resp) # "page"
    /\ lastDiag' = Diag(DiagText(provider, Outcome(resp)), resp)
    /\ UNCHANGED << pc, ri, passes, ascending, page, url, userID, repos, allCommits, out >>

\* the pages buffered before the failure processed all the same
ScanFails_ProcessPartial(resp) ==
    /\ Outcome(resp) # "page"
    /\ lastDiag' = Diag(DiagText(provider, Outcome(resp)), resp)
    /\ IF provider = "github"
       THEN /\ passes' = PassUpdate(<< >>, << >>, "failed")
            /\ Return(OnScanFailure(provider, ascending))
       ELSE /\ pc' = "process"
            /\ UNCHANGED << passes, ri >>
    /\ UNCHANGED << ascending, page, url, userID, repos, allCommits, out >>

\* a scan of one repository fails on this answer: print and return
ScanFails(resp) ==
    /\ Outcome(resp) # "page"
    /\ lastDiag' = Diag(DiagText(provider, Outcome(resp)), resp)
    /\ passes' = PassUpdate(<< >>, << >>, "failed")
    /\ Return(OnScanFailure(provider, ascending))
    /\ UNCHANGED << ascending, page, url, userID, repos, allCommits, out >>

(***************************************************************************)
(* github.go                                                               *)
(***************************************************************************)
\* main, lines 366-389
GitHub_main ==
    /\ provider = "github"
    /\ \/ /\ pc = "main_asc"
          /\ Call("ScanGlobalCommits", "search", "", TRUE)
          /\ UNCHANGED << ri, repos >>
       \/ /\ pc = "main_desc"
          /\ Call("ScanGlobalCommits", "search", "", FALSE)
          /\ UNCHANGED << ri, repos >>
       \/ /\ pc = "main_repos"
          /\ Call("GetUserRepos", "repos", "", FALSE)
          /\ repos' = << >>
          /\ UNCHANGED ri
       \/ /\ pc = "main_loop" /\ ri <= Len(repos) /\ SkipFork(repos[ri])
          /\ ri' = ri + 1
          /\ lastDiag' = NoDiag
          /\ UNCHANGED << pc, ascending, page, url, allCommits, passes, repos >>
       \/ /\ pc = "main_loop" /\ ri <= Len(repos) /\ ~SkipFork(repos[ri])
          /\ Call("ScanRepoCommits", "commits", repos[ri].name, FALSE)
          /\ UNCHANGED << ri, repos >>
       \/ /\ pc = "main_loop" /\ ri > Len(repos)
          /\ pc' = "done"
          /\ lastDiag' = NoDiag
          /\ UNCHANGED << ri, ascending, page, url, allCommits, passes, repos >>
    /\ UNCHANGED << provider, userID, out, lastReq, lastResp, aside >>

\* one iteration of the loop of ScanGlobalCommits, lines 248-279
GitHub_ScanGlobalCommits ==
    /\ provider = "github" /\ pc = "ScanGlobalCommits"
    /\ \E resp \in Responses(ServerData("search", "", ascending), Len(Served), FALSE, {""}, MayFail) :
        /\ lastReq' = Req("search", username, IF ascending THEN "asc" ELSE "desc", page, "")
        /\ lastResp' = resp
        /\ \/ /\ Outcome(resp) = "api" /\ resp.status = StatusSearchCap
              /\ lastDiag' = [NoDiag EXCEPT !.what = "Reached 1000-result limit for search API."]
              /\ passes' = PassUpdate(<< >>, << >>, "cap")
              /\ Return(OnSearchCap(ascending))
              /\ UNCHANGED << page, out >>
           \/ /\ Outcome(resp) # "page"
              /\ ~(Outcome(resp) = "api" /\ resp.status = StatusSearchCap)
              /\ lastDiag' = Diag(DiagText(provider, Outcome(resp)), resp)
              /\ passes' = PassUpdate(<< >>, << >>, "failed")
              /\ Return(OnSearchFailure(ascending))
              /\ UNCHANGED << page, out >>
           \/ /\ Outcome(resp) = "page" /\ Len(resp.body.items) = 0
              /\ lastDiag' = NoDiag
              /\ passes' = PassUpdate(<< >>, << >>, "ok")
              /\ Return(MainAfterSearch(ascending))
              /\ UNCHANGED << page, out >>
           \/ /\ Outcome(resp) = "page" /\ Len(resp.body.items) > 0
              /\ out' = out \o ProcessCommits("github", resp.body.items, "")
              /\ page' = page + 1
              /\ lastDiag' = NoDiag
              /\ passes' = PassUpdate(resp.body.items, resp.body.items, "running")
              /\ UNCHANGED << pc, ri >>
    /\ UNCHANGED << provider, ascending, url, userID, repos, allCommits, aside >>

\* one iteration of the loop of GetUserRepos, lines 287-306, with the return
GitHub_GetUserRepos ==
    /\ provider = "github" /\ pc = "GetUserRepos"
    /\ \E resp \in Responses(ServerData("repos", "", FALSE), Len(Served), FALSE, {""}, MayFail) :
        /\ lastReq' = Req("repos", username, "", page, "")
        /\ lastResp' = resp
        /\ \/ ListingFails(resp)
           \/ /\ Outcome(resp) = "page" /\ Len(resp.body.items) = 0
              /\ lastDiag' = NoDiag
              /\ passes' = PassUpdate(<< >>, << >>, "ok")
              /\ pc' = "main_loop"
              /\ ri' = 1
              /\ UNCHANGED << ascending, page, url, userID, repos, allCommits, out >>
           \/ /\ Outcome(resp) = "page" /\ Len(resp.body.items) > 0
              /\ repos' = AppendPage(repos, resp.body.items)
              /\ page' = page + 1
              /\ lastDiag' = NoDiag
              /\ passes' = PassUpdate(resp.body.items, << >>, "running")
              /\ UNCHANGED << pc, ascending, url, userID, ri, allCommits, out >>
    /\ UNCHANGED << provider, aside >>

\* one iteration of the loop of ScanRepoCommits, lines 312-335
GitHub_ScanRepoCommits ==
    /\ provider = "github" /\ pc = "ScanRepoCommits"
    /\ \E resp \in Responses(ServerData("commits", CurPass.repo, FALSE), Len(Served), FALSE, {""}, MayFail) :
        /\ lastReq' = Req("commits", CurPass.repo, "", page, "")
        /\ lastResp' = resp
        /\ \/ ScanFails(resp)
           \/ /\ Outcome(resp) = "page" /\ Len(resp.body.items) = 0
              /\ lastDiag' = NoDiag
              /\ passes' = PassUpdate(<< >>, << >>, "ok")
              /\ Return(MainAfterScan(provider, ascending))
              /\ UNCHANGED << ascending, page, url, userID, repos, allCommits, out >>
           \/ /\ Outcome(resp) = "page" /\ Len(resp.body.items) > 0
              /\ out' = out \o ProcessCommits("github", resp.body.items, "")
              /\ page' = page + 1
              /\ lastDiag' = NoDiag
              /\ passes' = PassUpdate(resp.body.items, resp.body.items, "running")
              /\ UNCHANGED << pc, ascending, url, userID, repos, ri, allCommits >>
    /\ UNCHANGED << provider, aside >>

(***************************************************************************)
(* gitlab.go                                                               *)
(***************************************************************************)
\* main, lines 336-357
GitLab_main ==
    /\ provider = "gitlab"
    /\ \/ /\ pc = "main_user"
          /\ Call("GetUserID", "user", "", FALSE)
          /\ UNCHANGED << ri, repos >>
       \/ /\ pc = "main_repos"
          /\ Call("GetUserProjects", "repos", "", FALSE)
          /\ repos' = << >>
          /\ UNCHANGED ri
       \/ /\ pc = "main_loop" /\ ri <= Len(repos) /\ SkipFork(repos[ri])
          /\ ri' = ri + 1
          /\ lastDiag' = NoDiag
          /\ UNCHANGED << pc, ascending, page, url, allCommits, passes, repos >>
       \/ /\ pc = "main_loop" /\ ri <= Len(repos) /\ ~SkipFork(repos[ri])
          /\ Call("ScanProjectCommits", "commits", repos[ri].name, TRUE)
          /\ UNCHANGED << ri, repos >>
       \/ /\ pc = "main_second"
          /\ Call("ScanProjectCommits", "commits", repos[ri].name, FALSE)
          /\ UNCHANGED << ri, repos >>
       \/ /\ pc = "main_loop" /\ ri > Len(repos)
          /\ pc' = "done"
          /\ lastDiag' = NoDiag
          /\ UNCHANGED << ri, ascending, page, url, allCommits, passes, repos >>
    /\ UNCHANGED << provider, userID, out, lastReq, lastResp, aside >>

\* GetUserID, lines 223-240, with main's check of its error
GitLab_GetUserID ==
    /\ provider = "gitlab" /\ pc = "GetUserID"
    /\ \E resp \in Responses(ServerData("user", "", FALSE), Len(Served), FALSE, {""}, MayFail) :
        /\ lastReq' = Req("user", username, "", 0, "")
        /\ lastResp' = resp
        /\ \/ /\ ListingFails(resp)
           \/ /\ Outcome(resp) = "page" /\ Len(resp.body.items) = 0
              /\ lastDiag' = [NoDiag EXCEPT !.what = "Error fetching user: No GitLab user found"]
              /\ passes' = PassUpdate(<< >>, << >>, "failed")
              /\ pc' = "exit1"
              /\ UNCHANGED << ascending, page, url, userID, repos, ri, allCommits, out >>
           \/ /\ Outcome(resp) = "page" /\ Len(resp.body.items) > 0
              /\ userID' = resp.body.items[1].ID
              /\ lastDiag' = NoDiag
              /\ passes' = PassUpdate(resp.body.items, << >>, "ok")
              /\ pc' = "main_repos"
              /\ UNCHANGED << ascending, page, url, repos, ri, allCommits, out >>
    /\ UNCHANGED << provider, aside >>

\* one iteration of the loop of GetUserProjects, lines 245-264, with the return
GitLab_GetUserProjects ==
    /\ provider = "gitlab" /\ pc = "GetUserProjects"
    /\ \E resp \in Responses(ServerData("repos", "", FALSE), Len(Served), FALSE, {""}, MayFail) :
        /\ lastReq' = Req("repos", ToString(userID), "", page, "")
        /\ lastResp' = resp
        /\ \/ ListingFails(resp)
           \/ /\ Outcome(resp) = "page" /\ Len(resp.body.items) = 0
              /\ lastDiag' = NoDiag
              /\ passes' = PassUpdate(<< >>, << >>, "ok")
              /\ pc' = "main_loop"
              /\ ri' = 1
              /\ UNCHANGED << ascending, page, url, userID, repos, allCommits, out >>
           \/ /\ Outcome(resp) = "page" /\ Len(resp.body.items) > 0
              /\ repos' = AppendPage(repos, resp.body.items)
              /\ page' = page + 1
              /\ lastDiag' = NoDiag
              /\ passes' = PassUpdate(resp.body.items, << >>, "running")
              /\ UNCHANGED << pc, ascending, url, userID, ri, allCommits, out >>
    /\ UNCHANGED << provider, aside >>

\* ScanProjectCommits processing each page as it arrives
GitLab_ScanProjectCommits_Streaming ==
    /\ provider = "gitlab" /\ pc = "ScanProjectCommits"
    /\ \E resp \in Responses(ServerData("commits", CurPass.repo, ascending), Len(Served), FALSE, {""}, MayFail) :
        /\ lastReq' = Req("commits", CurPass.repo, "", page, "")
        /\ lastResp' = resp
        /\ \/ ScanFails(resp)
           \/ /\ Outcome(resp) = "page" /\ Len(resp.body.items) = 0
              /\ lastDiag' = NoDiag
              /\ passes' = PassUpdate(<< >>, << >>, "ok")
              /\ Return(MainAfterScan(provider, ascending))
              /\ UNCHANGED << ascending, page, url, userID, repos, allCommits, out >>
           \/ /\ Outcome(resp) = "page" /\ Len(resp.body.items) > 0
              /\ out' = out \o ProcessCommits("gitlab", resp.body.items, repos[ri].web)
              /\ page' = page + 1
              /\ lastDiag' = NoDiag
              /\ passes' = PassUpdate(resp.body.items, resp.body.items, "running")
              /\ UNCHANGED << pc, ascending, url, userID, repos, ri, allCommits >>
    /\ UNCHANGED << provider, aside >>

\* one iteration of the loop of ScanProjectCommits, lines 272-295
GitLab_ScanProjectCommits ==
    /\ provider = "gitlab" /\ pc = "ScanProjectCommits"
    /\ \E resp \in Responses(ServerData("commits", CurPass.repo, ascending), Len(Served), FALSE, {""}, MayFail) :
        /\ lastReq' = Req("commits", CurPass.repo, "", page, "")
        /\ lastResp' = resp
        /\ \/ ScanFails(resp)
           \/ /\ Outcome(resp) = "page" /\ Len(resp.body.items) = 0
              /\ lastDiag' = NoDiag
              /\ pc' = "process"
              /\ UNCHANGED << ascending, page, url, userID, repos, ri, allCommits, out, passes >>
           \/ /\ Outcome(resp) = "page" /\ Len(resp.body.items) > 0
              /\ allCommits' = AppendPage(allCommits, resp.body.items)
              /\ page' = page + 1
              /\ lastDiag' = NoDiag
              /\ passes' = PassUpdate(resp.body.items, << >>, "running")
              /\ UNCHANGED << pc, ascending, url, userID, repos, ri, out >>
    /\ UNCHANGED << provider, aside >>

\* the rest of ScanProjectCommits after the loop, lines 297-304
GitLab_ScanProjectCommits_process ==
    /\ provider = "gitlab" /\ pc = "process"
    /\ allCommits' = ReverseIfAscending(ascending, allCommits)
    /\ out' = out \o ProcessCommits("gitlab", allCommits', repos[ri].web)
    /\ passes' = PassUpdate(<< >>, allCommits', "ok")
    /\ lastDiag' = NoDiag
    /\ Return(MainAfterScan(provider, ascending))
    /\ UNCHANGED << provider, ascending, page, url, userID, repos, lastReq, lastResp, aside >>

(***************************************************************************)
(* bitbucket.go                                                            *)
(***************************************************************************)
\* main, lines 301-313
Bitbucket_main ==
    /\ provider = "bitbucket"
    /\ \/ /\ pc = "main_repos"
          /\ Call("GetUserRepos", "repos", "", FALSE)
          /\ repos' = << >>
          /\ UNCHANGED ri
       \/ /\ pc = "main_loop" /\ ri <= Len(repos)
          /\ Call("ScanRepoCommits", "commits", repos[ri].name, TRUE)
          /\ UNCHANGED << ri, repos >>
       \/ /\ pc = "main_loop" /\ ri > Len(repos)
          /\ pc' = "done"
          /\ lastDiag' = NoDiag
          /\ UNCHANGED << ri, ascending, page, url, allCommits, passes, repos >>
    /\ UNCHANGED << provider, userID, out, lastReq, lastResp, aside >>

\* one iteration of the loop of GetUserRepos, lines 226-241, with the return
Bitbucket_GetUserRepos ==
    /\ provider = "bitbucket" /\ pc = "GetUserRepos" /\ url # ""
    /\ \E resp \in Responses(ServerData("repos", "", FALSE), Len(Served), TRUE, NextURLs(url, endless), MayFail) :
        /\ lastReq' = Req("repos", username, "", 0, url)
        /\ lastResp' = resp
        /\ \/ ListingFails(resp)
           \/ /\ Outcome(resp) = "page"
              /\ repos' = AppendPage(repos, resp.body.items)
              /\ url' = resp.body.next
              /\ lastDiag' = NoDiag
              /\ IF url' = ""
                 THEN /\ passes' = PassUpdate(resp.body.items, << >>, "ok")
                      /\ pc' = "main_loop"
                      /\ ri' = 1
                 ELSE /\ passes' = PassUpdate(resp.body.items, << >>, "running")
                      /\ UNCHANGED << pc, ri >>
              /\ UNCHANGED << ascending, page, userID, allCommits, out >>
    /\ UNCHANGED << provider, aside >>

\* one iteration of the loop of ScanRepoCommits, lines 249-268
Bitbucket_ScanRepoCommits ==
    /\ provider = "bitbucket" /\ pc = "ScanRepoCommits" /\ url # ""
    /\ \E resp \in Responses(ServerData("commits", CurPass.repo, ascending), Len(Served), TRUE, NextURLs(url, endless), MayFail) :
        /\ lastReq' = Req("commits", CurPass.repo, "", 0, url)
        /\ lastResp' = resp
        /\ \/ ScanFails(resp)
           \/ /\ Outcome(resp) = "page"
              /\ allCommits' = AppendPage(allCommits, resp.body.items)
              /\ url' = resp.body.next
              /\ lastDiag' = NoDiag
              /\ passes' = PassUpdate(resp.body.items, << >>, "running")
              /\ pc' = IF url' = "" THEN "process" ELSE pc
              /\ UNCHANGED << ascending, page, userID, repos, ri, out >>
    /\ UNCHANGED << provider, aside >>

\* the rest of ScanRepoCommits after the loop, lines 270-277
Bitbucket_ScanRepoCommits_process ==
    /\ provider = "bitbucket" /\ pc = "process"
    /\ allCommits' = ReverseIfAscending(ascending, allCommits)
    /\ out' = out \o ProcessCommits("bitbucket", allCommits', repos[ri].name)
    /\ passes' = PassUpdate(<< >>, allCommits', "ok")
    /\ lastDiag' = NoDiag
    /\ Return(MainAfterScan(provider, ascending))
    /\ UNCHANGED << provider, ascending, page, url, userID, repos, lastReq, lastResp, aside >>

(***************************************************************************)
(* Specification                                                           *)
(***************************************************************************)
\* where main starts issuing requests, once the configuration is loaded
FirstPosition(prov) ==
    CASE prov = "github" -> "main_asc"
      [] prov = "gitlab" -> "main_user"
      [] OTHER           -> "main_repos"

\* the program's state when main has loaded its configuration
ProgramInit ==
    /\ provider \in Providers
    /\ pc = FirstPosition(provider)
    /\ ascending = FALSE
    /\ page = 0
    /\ url = ""
    /\ userID = 0
    /\ repos = << >>
    /\ ri = 0
    /\ allCommits = << >>
    /\ out = << >>
    /\ lastDiag = NoDiag
    /\ lastReq = NoReq
    /\ lastResp = [err |-> FALSE, status |-> 0, body |-> EmptyBody]
    /\ passes = << >>

\* a run of one of the three programs against a provider whose lists end
Init ==
    /\ ProgramInit
    /\ endless = FALSE
    /\ fn = "" /\ args = << >> /\ ret = << >>

Next ==
    \/ GitHub_main
    \/ GitHub_ScanGlobalCommits
    \/ GitHub_GetUserRepos
    \/ GitHub_ScanRepoCommits
    \/ GitLab_main
    \/ GitLab_GetUserID
    \/ GitLab_GetUserProjects
    \/ GitLab_ScanProjectCommits
    \/ GitLab_ScanProjectCommits_process
    \/ Bitbucket_main
    \/ Bitbucket_GetUserRepos
    \/ Bitbucket_ScanRepoCommits
    \/ Bitbucket_ScanRepoCommits_process

Spec == Init /\ [][Next]_vars

\* a run against a provider that may or may not hand cursors out again
LiveInit ==
    /\ ProgramInit
    /\ endless \in BOOLEAN
    /\ fn = "" /\ args = << >> /\ ret = << >>

\* every request returns and the program goes on to its next step
LiveSpec == LiveInit /\ [][Next]_vars /\ WF_vars(Next)

(***************************************************************************)
(* The functions of the detection pipeline applied on their own: the       *)
(* program has not started, one function is called on arguments drawn from *)
(* the sets below, and returns.                                            *)
(***************************************************************************)
\* longest sequence of commits handed to ProcessCommits on its own
MaxBatch == 2

\* raw author strings (BitbucketCommit.Author.Raw)
RawAuthors ==
    {"Al <al@ex.com>", "Bo", "", "  Sp  <s@ex.com>", "Cy <cy@ex.org> (x)",
     "a> <b@ex.com", "A <<b@ex.com>>", "A <b@ex.com> <c@ex.org>",
     "<d@ex.com", "e@ex.com>", "<>", "x <y>z>", "N <n@ex.com>>"}

\* addresses handed to IsValidEmail
Addresses ==
    {"al@ex.com", "john@sub.example.com", "bo@localhost", "bot", "", "Al <al@ex.com>",
     "a@b@ex.com", "ev@me.github.io", "di@corp.co.uk", "x@ex.zz", "x@ex%41.com",
     "a.@ex.com", "a@.com", "a b@ex.com", "noreply@github.com", "@ex.com", "a@",
     "<al@ex.com>", "al.x@com"}

\* texts and pattern lists handed to SearchPatterns
Texts ==
    {"fix arch linux zsh", "", "ubuntu on arch linux", "zsh zsh zsh", "vimzshvim", "init"}

PatternLists ==
    {cfg.OperatingSystems, cfg.Utilities, << >>,
     << [ID |-> "vim", Regex |-> "vim"], [ID |-> "zsh", Regex |-> "zsh"] >>,
     << [ID |-> "sh", Regex |-> "zsh"], [ID |-> "sh", Regex |-> "sh"] >>,
     << [ID |-> "any", Regex |-> ""], [ID |-> "ubuntu", Regex |-> "ubuntu"],
        [ID |-> "arch", Regex |-> "arch"] >>}

\* the sequences of at most MaxBatch commits
Batches ==
    UNION {{[k \in 1..n |-> Commits[f[k]]] : f \in [1..n -> 1..Len(Commits)]}
           : n \in 0..MaxBatch}

\* the label argument of ProcessCommits in each program: none in github.go,
\* projectURL in gitlab.go, repoName in bitbucket.go
LabelsOf(prov) ==
    CASE prov = "github" -> {""}
      [] prov = "gitlab" -> {"web/r1", "web/vimrc"}
      [] OTHER           -> {"r1", "vimrc"}

\* the functions each program has
FunctionsOf(prov) ==
    {"IsValidEmail", "SearchPatterns", "ProcessCommits"}
    \cup (IF prov = "bitbucket" THEN {"parseRawAuthor"} ELSE {})

Inputs(prov, f) ==
    CASE f = "parseRawAuthor" -> {<< raw >> : raw \in RawAuthors}
      [] f = "IsValidEmail"   -> {<< addr >> : addr \in Addresses}
      [] f = "SearchPatterns" -> Texts \X PatternLists
      [] OTHER                -> Batches \X LabelsOf(prov)

Returned == ret # << >>

Call_parseRawAuthor ==
    /\ fn = "parseRawAuthor" /\ ~Returned
    /\ ret' = << parseRawAuthor(args[1]) >>
    /\ UNCHANGED << provider, pc, ascending, page, url, userID, repos, ri, allCommits,
                    out, lastDiag, lastReq, lastResp, passes, endless, fn, args >>

Call_IsValidEmail ==
    /\ fn = "IsValidEmail" /\ ~Returned
    /\ ret' = << IsValidEmail(args[1]) >>
    /\ UNCHANGED << provider, pc, ascending, page, url, userID, repos, ri, allCommits,
                    out, lastDiag, lastReq, lastResp, passes, endless, fn, args >>

Call_SearchPatterns ==
    /\ fn = "SearchPatterns" /\ ~Returned
    /\ ret' = << SearchPatterns(args[1], args[2]) >>
    /\ UNCHANGED << provider, pc, ascending, page, url, userID, repos, ri, allCommits,
                    out, lastDiag, lastReq, lastResp, passes, endless, fn, args >>

\* ProcessCommits prints; what it printed is collected as its result
Call_ProcessCommits ==
    /\ fn = "ProcessCommits" /\ ~Returned
    /\ ret' = << ProcessCommits(provider, args[1], args[2]) >>
    /\ UNCHANGED << provider, pc, ascending, page, url, userID, repos, ri, allCommits,
                    out, lastDiag, lastReq, lastResp, passes, endless, fn, args >>

FnInit ==
    /\ ProgramInit
    /\ endless = FALSE
    /\ fn \in FunctionsOf(provider)
    /\ args \in Inputs(provider, fn)
    /\ ret = << >>

FnNext ==
    \/ Call_parseRawAuthor
    \/ Call_IsValidEmail
    \/ Call_SearchPatterns
    \/ Call_ProcessCommits

FnSpec == FnInit /\ [][FnNext]_vars

(***************************************************************************)
(* Vocabulary of the properties                                            *)
(***************************************************************************)
IsPrefix(a, b) == Len(a) <= Len(b) /\ SubSeq(b, 1, Len(a)) = a

PassIds == 1..Len(passes)

\* the passes that fetch commits (global search or one repository)
CommitPassIds == {i \in PassIds : passes[i].kind \in {"search", "commits"}}

\* the passes over one repository, as << repo, ascending >>, in order
ScanOrder ==
    LET IsScan(ps) == ps.kind = "commits"
        scans == SelectSeq(passes, IsScan)
    IN  [i \in 1..Len(scans) |-> << scans[i].repo, scans[i].asc >>]

\* the repositories of the listing that main does not skip
Scanned(prov, listing) ==
    LET Kept(r) == prov = "bitbucket" \/ ~r.fork
    IN  SelectSeq(listing, Kept)

\* the passes main makes over the repositories of a listing
ExpectedScans(prov, listing) ==
    LET kept == Scanned(prov, listing)
    IN  Flatten([i \in 1..Len(kept) |->
            CASE prov = "github" -> << << kept[i].name, FALSE >> >>
              [] prov = "gitlab" -> << << kept[i].name, TRUE >>, << kept[i].name, FALSE >> >>
              [] OTHER           -> << << kept[i].name, TRUE >> >>])

\* the label ProcessCommits got in a pass
LabelOf(ps) ==
    CASE provider = "github" -> ""
      [] provider = "gitlab" -> "web/" \o ps.repo
      [] OTHER               -> ps.repo

\* the identity emails ProcessCommits looks at on a commit, for every commit
\* of the model, computed once
PoolIdentityEmails ==
    [prov \in Providers |->
        [i \in 1..Len(Commits) |->
            CASE prov = "github" -> {Commits[i].authorEmail, Commits[i].committerEmail}
              [] prov = "gitlab" -> {Commits[i].authorEmail}
              [] OTHER           -> {parseRawAuthor(Commits[i].raw)[2]}]]

IdentityEmails(c) == PoolIdentityEmails[provider][PoolIndex(c)]

\* the date ProcessCommits prints for a commit, computed once
PoolDates == [i \in 1..Len(Commits) |-> FormatDate(Commits[i].date)]

\* every identity email of the providers' commits, under any program
AllEmails ==
    UNION {{Pool[i].authorEmail, Pool[i].committerEmail, parseRawAuthor(Pool[i].raw)[2]}
           : i \in 1..Len(Pool)}

ValidEmails       == {e \in AllEmails : IsValidEmail(e)}
BlacklistedEmails == {e \in AllEmails : IsBlacklisted(e, blacklist)}

\* the commits handed to ProcessCommits so far, with the pass of each
Processed ==
    {ik \in CommitPassIds \X (1..HistLen) : ik[2] <= Len(passes[ik[1]].handed)}

\* an Email block for identity e of commit c
IsEmailBlockFor(f, c, e) ==
    /\ f.kind = "Email"
    /\ f.email = e
    /\ f.date = PoolDates[PoolIndex(c)]
    /\ provider # "gitlab" => f.location = c.url

(***************************************************************************)
(* C1: for every commit handed to ProcessCommits and every identity on it, *)
(* an Email block is printed for the identity iff its address is valid and *)
(* not blacklisted; no Email block ever carries a blacklisted address.     *)
(***************************************************************************)
C1_EmailIffValidAndNotBlacklisted ==
    /\ \A k \in 1..Len(out) :
          out[k].kind = "Email" =>
             /\ out[k].email \in ValidEmails
             /\ out[k].email \notin BlacklistedEmails
             /\ \E ik \in Processed :
                   \E e \in IdentityEmails(passes[ik[1]].handed[ik[2]]) :
                      IsEmailBlockFor(out[k], passes[ik[1]].handed[ik[2]], e)
    /\ \A ik \in Processed :
          LET c == passes[ik[1]].handed[ik[2]]
          IN  \A e \in IdentityEmails(c) :
                 (e \in ValidEmails /\ e \notin BlacklistedEmails)
                    => \E k \in 1..Len(out) : IsEmailBlockFor(out[k], c, e)

\* a processed commit has a valid identity that the blacklist suppresses,
\* and one that is printed
C1_Witness ==
    \E ik \in Processed :
       LET c == passes[ik[1]].handed[ik[2]]
       IN  /\ \E e \in IdentityEmails(c) :
                 e \in ValidEmails /\ e \in BlacklistedEmails
           /\ \E k \in 1..Len(out) : out[k].kind = "Email"

(***************************************************************************)
(* C2: a failed commit-page fetch (transport error, status other than 200, *)
(* undecodable body) aborts the pass over that repository only: main goes  *)
(* on, the run never exits through os.Exit because of it, and a run that   *)
(* ends has made the passes over every repository main does not skip, in   *)
(* the order of the listing.                                               *)
(***************************************************************************)
C2_ScanFailureAbortsOnePass ==
    /\ \A i \in PassIds :
          (passes[i].kind = "commits" /\ passes[i].status = "failed")
             => /\ pc # "exit1"
                /\ i = Len(passes) => pc \in {"main_loop", "main_second", "done"}
    /\ pc = "done" => ScanOrder = ExpectedScans(provider, repos)
    /\ pc \in {"main_loop", "main_second"} => ENABLED Next

\* a run has ended after the pass over one repository failed and a pass
\* over a later repository fetched commits
C2_Witness ==
    /\ pc = "done"
    /\ \E i, j \in PassIds :
          /\ i < j
          /\ passes[i].kind = "commits" /\ passes[i].status = "failed"
          /\ passes[j].kind = "commits" /\ passes[j].repo # passes[i].repo
          /\ Len(passes[j].served) > 0

(***************************************************************************)
(* C3: a failure of the listing of repositories / projects, on any page,   *)
(* is fatal: what the listing had accumulated is dropped, no commit fetch  *)
(* for a repository is ever issued, and the process exits with status 1.   *)
(***************************************************************************)
C3_ListingFailureIsFatal ==
    /\ \A i \in PassIds :
          (passes[i].kind \in {"repos", "user"} /\ passes[i].status = "failed")
             => /\ pc = "exit1"
                /\ i = Len(passes)
                /\ repos = << >>
                /\ ~ENABLED Next
    /\ pc = "exit1" =>
          /\ CurPass.kind \in {"repos", "user"} /\ CurPass.status = "failed"
          /\ lastReq.kind = CurPass.kind
          /\ \A i \in PassIds : passes[i].kind # "commits"

\* the listing failed on a page after a page of repositories had arrived
C3_Witness ==
    /\ pc = "exit1"
    /\ CurPass.kind = "repos" /\ CurPass.status = "failed"
    /\ Len(CurPass.served) > 0
    /\ ~lastResp.err /\ lastResp.status # StatusOK

(***************************************************************************)
(* C4: status 422 on any page of the GitHub global search ends that pass   *)
(* as a normal return: nothing printed is taken back, the process does not *)
(* exit, main goes on with the next call, and a run that ends has made the *)
(* other directional pass, the listing and the passes over the             *)
(* repositories.                                                           *)
(***************************************************************************)
C4_SearchCapEndsPassOnly ==
    /\ [][(pc = "ScanGlobalCommits" /\ ~lastResp'.err
             /\ lastResp'.status = StatusSearchCap)
            => /\ out' = out
               /\ pc' = (IF ascending THEN "main_desc" ELSE "main_repos")
               /\ passes'[Len(passes)].status = "cap"
               /\ passes'[Len(passes)].handed = passes[Len(passes)].handed]_vars
    /\ [](\A i \in PassIds : passes[i].status = "cap" =>
             /\ pc # "exit1" \/ CurPass.kind = "repos"
             /\ out = Flatten([j \in PassIds |->
                         ProcessCommits(provider, passes[j].handed, LabelOf(passes[j]))])
             /\ pc = "done" =>
                   /\ Len(passes) >= 3
                   /\ passes[1].kind = "search" /\ passes[1].asc
                   /\ passes[2].kind = "search" /\ ~passes[2].asc
                   /\ passes[3].kind = "repos" /\ passes[3].status = "ok"
                   /\ ScanOrder = ExpectedScans(provider, repos))

\* the ascending search was capped after a page of findings; the descending
\* search and a pass over a repository then ran to their end
C4_Witness ==
    /\ pc = "done"
    /\ passes[1].status = "cap" /\ Len(passes[1].handed) > 0
    /\ passes[2].status = "ok" /\ Len(passes[2].handed) = HistLen
    /\ \E i \in PassIds : passes[i].kind = "commits" /\ passes[i].status = "ok"
    /\ Len(out) > 0

C6_AscendingIsReverseOfDescending ==
    provider \in {"gitlab", "bitbucket"} =>
       /\ \A i \in CommitPassIds :
             /\ passes[i].status = "ok" =>
                   passes[i].handed = (IF passes[i].asc THEN Rev(passes[i].served)
                                       ELSE passes[i].served)
             /\ passes[i].status # "ok" => passes[i].handed = << >>
             /\ ReverseIfAscending(TRUE, ReverseIfAscending(TRUE, passes[i].served))
                   = passes[i].served
       /\ \A i, j \in CommitPassIds :
             (/\ passes[i].status = "ok" /\ passes[j].status = "ok"
              /\ passes[i].repo = passes[j].repo
              /\ passes[i].asc /\ ~passes[j].asc
              /\ passes[i].served = passes[j].served)
                => passes[i].handed = Rev(passes[j].handed)

\* both passes over one GitLab project ended, on the same three commits
C6_Witness ==
    /\ provider = "gitlab"
    /\ \E i, j \in CommitPassIds :
          /\ passes[i].status = "ok" /\ passes[j].status = "ok"
          /\ passes[i].repo = passes[j].repo
          /\ passes[i].asc /\ ~passes[j].asc
          /\ passes[i].served = passes[j].served
          /\ Len(passes[i].handed) = 3
          /\ passes[i].handed # passes[j].handed

(***************************************************************************)
(* C7: in GitHub and GitLab no commit request is ever issued for a project *)
(* the listing flags as a fork, and a run that ends has issued the commit  *)
(* requests for every project not flagged.                                 *)
(***************************************************************************)
C7_ForksAreNeverFetched ==
    provider \in {"github", "gitlab"} =>
       /\ \A i \in PassIds :
             passes[i].kind = "commits" =>
                \E k \in 1..Len(repos) : repos[k].name = passes[i].repo /\ ~repos[k].fork
       /\ lastReq.kind = "commits" =>
             \E k \in 1..Len(repos) : repos[k].name = lastReq.target /\ ~repos[k].fork
       /\ pc = "done" =>
             \A k \in 1..Len(repos) :
                ~repos[k].fork =>
                   \E i \in PassIds : /\ passes[i].kind = "commits"
                                      /\ passes[i].repo = repos[k].name
                                      /\ passes[i].status # "running"

\* a run over a listing with a fork and a later non-fork has ended
C7_Witness ==
    /\ provider = "github" /\ pc = "done"
    /\ \E k, m \in 1..Len(repos) : k < m /\ repos[k].fork /\ ~repos[m].fork
    /\ \E i \in PassIds : passes[i].kind = "commits" /\ Len(passes[i].served) > 0

(***************************************************************************)
(* C8 as stated: project listing first, then the per-project passes, then  *)
(* the global search (ascending, then descending); no global-search        *)
(* request before the listing has finished.                                *)
(***************************************************************************)
C8_StatedRank(ps) ==
    CASE ps.kind = "user"    -> 0
      [] ps.kind = "repos"   -> 1
      [] ps.kind = "commits" -> 2
      [] OTHER               -> IF ps.asc THEN 3 ELSE 4

C8_ListingBeforeGlobalSearch ==
    /\ \A i, j \in PassIds : i < j => C8_StatedRank(passes[i]) <= C8_StatedRank(passes[j])
    /\ \A i \in PassIds :
          passes[i].kind = "search" =>
             \E j \in 1..(i - 1) : passes[j].kind = "repos" /\ passes[j].status = "ok"

(***************************************************************************)
(* C8 amended: the phases of a run come in a fixed order.  GitHub: global  *)
(* search ascending, global search descending, project listing, then the   *)
(* passes over the projects, then Done.  GitLab (after the user lookup)    *)
(* and Bitbucket: project listing, then the passes over the projects, then *)
(* Done.  No commit request for a project precedes the end of the listing, *)
(* and on GitHub the listing starts only when both searches have returned. *)
(***************************************************************************)
C8_Rank(ps) ==
    CASE ps.kind = "search"  -> IF ps.asc THEN 1 ELSE 2
      [] ps.kind = "user"    -> 2
      [] ps.kind = "repos"   -> 3
      [] OTHER               -> 4

C8_PhasesInOrder ==
    /\ \A i, j \in PassIds :
          i < j => \/ C8_Rank(passes[i]) < C8_Rank(passes[j])
                   \/ passes[i].kind = "commits" /\ passes[j].kind = "commits"
    /\ \A i \in PassIds : i < Len(passes) => passes[i].status # "running"
    /\ \A i \in PassIds :
          passes[i].kind = "commits" =>
             \E j \in 1..(i - 1) : passes[j].kind = "repos" /\ passes[j].status = "ok"
    /\ \A i \in PassIds :
          passes[i].kind = "repos" =>
             CASE provider = "github" ->
                     /\ i = 3
                     /\ passes[1].kind = "search" /\ passes[1].asc
                     /\ passes[2].kind = "search" /\ ~passes[2].asc
               [] provider = "gitlab" -> i = 2 /\ passes[1].kind = "user"
               [] OTHER -> i = 1
    /\ pc = "done" =>
          /\ \E i \in PassIds : passes[i].kind = "repos" /\ passes[i].status = "ok"
          /\ ScanOrder = ExpectedScans(provider, repos)
          /\ CurPass.status # "running"
          /\ ~ENABLED Next

\* a GitHub run has ended: two searches, the listing, passes over two
\* repositories
C8_Witness ==
    /\ provider = "github" /\ pc = "done"
    /\ Len(passes) = 5
    /\ Len(passes[1].served) > 0 /\ Len(passes[5].served) > 0

(***************************************************************************)
(* C9 as stated: in every commit-fetching pass nothing is handed to        *)
(* ProcessCommits while a further page of the pass is still to be          *)
(* requested.                                                              *)
(***************************************************************************)
C9_NothingProcessedBeforeLastPage ==
    \A i \in CommitPassIds : passes[i].status = "running" => passes[i].handed = << >>

(***************************************************************************)
(* C9 amended: in GitLab and Bitbucket all pages of a pass are fetched and *)
(* concatenated before anything is handed to ProcessCommits; in GitHub     *)
(* (ScanRepoCommits and ScanGlobalCommits) every non-empty page is handed  *)
(* to ProcessCommits as soon as it is fetched, before the next page is     *)
(* requested.  What is printed is what ProcessCommits printed for the      *)
(* commits handed on.                                                      *)
(***************************************************************************)
C9_BufferedExceptOnGitHub ==
    /\ provider \in {"gitlab", "bitbucket"} =>
          \A i \in CommitPassIds : passes[i].status = "running" => passes[i].handed = << >>
    /\ provider = "github" =>
          \A i \in CommitPassIds : passes[i].handed = passes[i].served
    /\ out = Flatten([i \in PassIds |->
                ProcessCommits(provider, passes[i].handed, LabelOf(passes[i]))])

\* GitLab is about to request a third page, two pages are buffered and
\* nothing of them has been processed
C9_Witness ==
    /\ provider = "gitlab" /\ pc = "ScanProjectCommits" /\ page = 3
    /\ Len(allCommits) >= 2
    /\ CurPass.handed = << >>
    /\ Len(passes) = 3 => out = << >>

(***************************************************************************)
(* C10 as stated: every answer to a listing or commit request whose status *)
(* is not 2xx is a fetch failure, never decoded, reported with its status  *)
(* code and raw body.                                                      *)
(***************************************************************************)
RequestPositions ==
    {"ScanGlobalCommits", "GetUserRepos", "ScanRepoCommits",
     "GetUserID", "GetUserProjects", "ScanProjectCommits"}

Non2xx(resp) == ~resp.err /\ (resp.status < 200 \/ resp.status > 299)

\* the step decodes nothing of the answer
C10_NotDecoded ==
    /\ out' = out
    /\ allCommits' = allCommits
    /\ repos' \in {repos, << >>}
    /\ userID' = userID
    /\ passes'[Len(passes)].served = passes[Len(passes)].served
    /\ passes'[Len(passes)].handed = passes[Len(passes)].handed

\* the step reports the answer as a fetch failure
C10_ReportedAsFailure ==
    /\ passes'[Len(passes)].status = "failed"
    /\ lastDiag'.status = lastResp'.status
    /\ lastDiag'.body = lastResp'.body

C10_Non2xxIsReportedFailure ==
    [][(pc \in RequestPositions /\ Non2xx(lastResp'))
          => (C10_NotDecoded /\ C10_ReportedAsFailure)]_vars

(***************************************************************************)
(* C10 amended: an answer whose status is not 2xx is never decoded as a    *)
(* page, and nothing of its body reaches ProcessCommits or the project     *)
(* list; it is a fetch failure reported with its status code and raw body, *)
(* except status 422 on the GitHub global search, which ends the pass as a *)
(* normal return with a fixed message carrying neither status nor body.    *)
(***************************************************************************)
C10_Non2xxIsNeverDecoded ==
    [][(pc \in RequestPositions /\ Non2xx(lastResp'))
          => /\ C10_NotDecoded
             /\ IF pc = "ScanGlobalCommits" /\ lastResp'.status = StatusSearchCap
                THEN /\ passes'[Len(passes)].status = "cap"
                     /\ lastDiag'.status = 0 /\ lastDiag'.body = EmptyBody
                ELSE C10_ReportedAsFailure]_vars

\* a commit request was answered 404 with a body that holds a commit
C10_Witness ==
    /\ ~lastResp.err /\ lastResp.status = 404
    /\ Len(lastResp.body.items) > 0
    /\ lastReq.kind = "commits"
    /\ CurPass.kind = "commits" /\ CurPass.status = "failed"
    /\ lastDiag.status = 404 /\ lastDiag.body = lastResp.body

(***************************************************************************)
(* Vocabulary of the properties of the pipeline's functions                *)
(***************************************************************************)
\* function f has been applied and has returned
Applied(f) == fn = f /\ Returned

\* the text each program hands to SearchPatterns for a commit
ComposedText(prov, c, label) ==
    CASE prov = "github" -> MarshalCommitItem(c)
      [] prov = "gitlab" -> c.message
      [] OTHER           -> c.message \o " " \o c.raw \o " " \o label

\* the raw identity strings of a commit as each provider's payload has them
IdentityStrings(prov, c) ==
    CASE prov = "github" -> {c.authorName, c.authorEmail, c.committerName, c.committerEmail}
      [] prov = "gitlab" -> {c.authorName, c.authorEmail}
      [] OTHER           -> {c.raw}

SignatureKinds == {"OS", "Utility"}

PatternsOf(kind) == IF kind = "OS" THEN cfg.OperatingSystems ELSE cfg.Utilities

\* the indices of the patterns whose expression matches the text
Matching(text, patterns) ==
    {i \in 1..Len(patterns) : MatchString(patterns[i].Regex, text)}

\* the k-th smallest element of a set of numbers
KthOf(M, k) == CHOOSE i \in M : Cardinality({j \in M : j < i}) = k - 1

\* what ProcessCommits printed for the k-th commit of its batch: the blocks
\* after those of the first k-1 commits, up to those of the first k
FindingsOf(k) ==
    SubSeq(ret[1],
           Len(ProcessCommits(provider, SubSeq(args[1], 1, k - 1), args[2])) + 1,
           Len(ProcessCommits(provider, SubSeq(args[1], 1, k), args[2])))

CountKind(blocks, kind) == Cardinality({j \in 1..Len(blocks) : blocks[j].kind = kind})

KindRank(kind) == CASE kind = "Email" -> 1 [] kind = "OS" -> 2 [] OTHER -> 3

(***************************************************************************)
(* C11 as stated: in every provider a signature pattern that matches the   *)
(* commit message, one of the raw identity strings or the repo label       *)
(* yields a signature finding of its kind and identifier for the commit.   *)
(***************************************************************************)
C11_SignatureInAnyFieldIsFound ==
    Applied("ProcessCommits") =>
       \A k \in 1..Len(args[1]) : \A kind \in SignatureKinds :
          \A i \in 1..Len(PatternsOf(kind)) :
             LET c   == args[1][k]
                 pat == PatternsOf(kind)[i]
             IN  (\/ MatchString(pat.Regex, c.message)
                  \/ \E str \in IdentityStrings(provider, c) : MatchString(pat.Regex, str)
                  \/ MatchString(pat.Regex, args[2]))
                    => \E j \in 1..Len(FindingsOf(k)) :
                          /\ FindingsOf(k)[j].kind = kind
                          /\ FindingsOf(k)[j].id = pat.ID

(***************************************************************************)
(* C12: signature findings are not gated by identity checks: for every     *)
(* commit handed to ProcessCommits, whatever its identities, and every OS  *)
(* or Utility pattern whose expression matches the text the program        *)
(* composes for the commit, a finding of that kind and identifier is       *)
(* printed for the commit.                                                 *)
(***************************************************************************)
C12_SignaturesNotGatedByIdentity ==
    Applied("ProcessCommits") =>
       \A k \in 1..Len(args[1]) : \A kind \in SignatureKinds :
          \A i \in Matching(ComposedText(provider, args[1][k], args[2]), PatternsOf(kind)) :
             \E j \in 1..Len(FindingsOf(k)) :
                /\ FindingsOf(k)[j].kind = kind
                /\ FindingsOf(k)[j].id = PatternsOf(kind)[i].ID
                /\ FindingsOf(k)[j].date = PoolDates[PoolIndex(args[1][k])]

\* one commit of which no identity passes was processed: no Email block,
\* and signature blocks of both kinds
C12_Witness ==
    /\ Applied("ProcessCommits") /\ Len(args[1]) = 1
    /\ \A e \in IdentityEmails(args[1][1]) : ~IsValidEmail(e) \/ IsBlacklisted(e, blacklist)
    /\ CountKind(ret[1], "Email") = 0
    /\ CountKind(ret[1], "OS") > 0 /\ CountKind(ret[1], "Utility") > 0

(***************************************************************************)
(* C13: the findings of one commit come as Email blocks first (the         *)
(* author's before the committer's), then OS blocks, then Utility blocks,  *)
(* and the findings of a batch are those of its commits one after the      *)
(* other, in the order of the batch.                                       *)
(***************************************************************************)
C13_FindingsInOrder ==
    Applied("ProcessCommits") =>
       /\ Len(ret[1]) = Len(ProcessCommits(provider, args[1], args[2]))
       /\ \A k \in 1..Len(args[1]) :
             LET c   == args[1][k]
                 seg == FindingsOf(k)
             IN  /\ seg = ProcessCommits(provider, << c >>, args[2])
                 /\ \A j \in 1..Len(seg) : seg[j].date = PoolDates[PoolIndex(c)]
                 /\ \A j1, j2 \in 1..Len(seg) :
                       j1 < j2 => KindRank(seg[j1].kind) <= KindRank(seg[j2].kind)
                 /\ CountKind(seg, "Email") = 2 =>
                       /\ seg[1].email = c.authorEmail /\ seg[1].name = c.authorName
                       /\ seg[2].email = c.committerEmail /\ seg[2].name = c.committerName

\* two commits were processed by github.go, the first with two Email blocks,
\* an OS block and a Utility block, the second with blocks too
C13_Witness ==
    /\ Applied("ProcessCommits") /\ provider = "github" /\ Len(args[1]) = 2
    /\ CountKind(FindingsOf(1), "Email") = 2
    /\ CountKind(FindingsOf(1), "OS") = 1 /\ CountKind(FindingsOf(1), "Utility") = 1
    /\ Len(FindingsOf(2)) > 0
    /\ args[1][1] # args[1][2]

(***************************************************************************)
(* C14: signature matching is multi-hit: SearchPatterns returns the        *)
(* identifier of every pattern whose expression matches the text and of no *)
(* other, in the order of the pattern list, and ProcessCommits prints as   *)
(* many OS (Utility) blocks for a commit as OS (Utility) patterns match.   *)
(***************************************************************************)
C14_MultiHit ==
    /\ Applied("SearchPatterns") =>
          LET M == Matching(args[1], args[2])
          IN  /\ Len(ret[1]) = Cardinality(M)
              /\ \A k \in 1..Len(ret[1]) : ret[1][k] = args[2][KthOf(M, k)].ID
    /\ Applied("ProcessCommits") =>
          \A k \in 1..Len(args[1]) : \A kind \in SignatureKinds :
             CountKind(FindingsOf(k), kind)
                = Cardinality(Matching(ComposedText(provider, args[1][k], args[2]),
                                       PatternsOf(kind)))

\* a commit matching two OS patterns and one Utility pattern was processed
C14_Witness ==
    /\ Applied("ProcessCommits") /\ Len(args[1]) = 1
    /\ CountKind(ret[1], "OS") = 2 /\ CountKind(ret[1], "Utility") = 1
    /\ Len(ret[1]) = 3

(***************************************************************************)
(* C15 as stated: an identifier appears at most once in the result of one  *)
(* call of SearchPatterns, whatever the pattern list.                      *)
(***************************************************************************)
C15_IdentifierAtMostOnce ==
    Applied("SearchPatterns") =>
       \A j, k \in 1..Len(ret[1]) : j # k => ret[1][j] # ret[1][k]

(***************************************************************************)
(* C16 as stated: an address that matches a blacklist pattern appears in   *)
(* no printed block of any kind.                                           *)
(***************************************************************************)
C16_BlacklistedNeverPrinted ==
    Applied("ProcessCommits") =>
       \A j \in 1..Len(ret[1]) : ~IsBlacklisted(ret[1][j].email, blacklist)

(***************************************************************************)
(* C16 amended: an address that matches a blacklist pattern never appears  *)
(* as the address of an Email block.  The OS and Utility blocks are not    *)
(* filtered: github.go and gitlab.go print the commit's author address     *)
(* with them whether it is blacklisted or not, bitbucket.go prints no      *)
(* address with them.                                                      *)
(***************************************************************************)
C16_BlacklistFiltersEmailBlocksOnly ==
    Applied("ProcessCommits") =>
       \A k \in 1..Len(args[1]) : \A j \in 1..Len(FindingsOf(k)) :
          LET f == FindingsOf(k)[j]
          IN  IF f.kind = "Email"
              THEN ~IsBlacklisted(f.email, blacklist)
              ELSE f.email = (IF provider = "bitbucket" THEN ""
                              ELSE args[1][k].authorEmail)

\* a commit whose author address is blacklisted was processed: the address
\* is in a signature block and in no Email block
C16_Witness ==
    /\ Applied("ProcessCommits") /\ Len(args[1]) = 1
    /\ IsValidEmail(args[1][1].authorEmail)
    /\ IsBlacklisted(args[1][1].authorEmail, blacklist)
    /\ \E j \in 1..Len(ret[1]) :
          ret[1][j].kind # "Email" /\ ret[1][j].email = args[1][1].authorEmail
    /\ \A j \in 1..Len(ret[1]) :
          ret[1][j].kind = "Email" => ret[1][j].email # args[1][1].authorEmail

(***************************************************************************)
(* C19 as stated: parseRawAuthor splits at the first "<" and the last ">": *)
(* the name is the trimmed text before the first "<", the email is the     *)
(* text between that "<" and the last ">" and holds neither bracket; with  *)
(* no such pair the name is the whole string and the email is empty.       *)
(***************************************************************************)
C19_SplitsAtFirstLtAndLastGt ==
    Applied("parseRawAuthor") =>
       LET raw   == args[1]
           lt    == Index(raw, "<")
           gt    == LastIndex(raw, ">")
           name  == ret[1][1]
           email == ret[1][2]
       IN  IF lt > 0 /\ gt > lt
           THEN /\ name = TrimSpace(SubSeq(raw, 1, lt - 1))
                /\ email = SubSeq(raw, lt + 1, gt - 1)
                /\ ~Contains(email, "<") /\ ~Contains(email, ">")
           ELSE name = raw /\ email = ""

(***************************************************************************)
(* C20: IsValidEmail returns false for an address without "@", for one     *)
(* that does not parse as a single mail address, for one whose domain (the *)
(* part after the last "@" of the parsed address) has no ".", and for one  *)
(* whose public suffix is empty or not ICANN-managed; it returns true      *)
(* exactly when all its checks pass, and always returns a boolean.         *)
(***************************************************************************)
C20_IsValidEmailAllChecks ==
    Applied("IsValidEmail") =>
       LET addr   == args[1]
           parsed == ParseAddress(addr)
           at     == LastIndex(parsed.Address, "@")
           domain == SubSeq(parsed.Address, at + 1, Len(parsed.Address))
           suffix == PublicSuffix(domain)
           hasAt     == Contains(addr, "@")
           hasDot    == Contains(domain, ".")
           icannOK   == suffix.eTLD # "" /\ suffix.icann
       IN  /\ ret[1] \in BOOLEAN
           /\ ~hasAt => ret[1] = FALSE
           /\ ~parsed.ok => ret[1] = FALSE
           /\ (parsed.ok /\ ~hasDot) => ret[1] = FALSE
           /\ (parsed.ok /\ ~icannOK) => ret[1] = FALSE
           /\ ret[1] = TRUE <=>
                 (hasAt /\ parsed.ok /\ at > 0 /\ hasDot /\ icannOK /\ URLParseOK(domain))

\* an address that parses and has a dotted domain was rejected for its
\* suffix, which is not ICANN-managed
C20_Witness ==
    /\ Applied("IsValidEmail")
    /\ Contains(args[1], "@") /\ ParseAddress(args[1]).ok
    /\ LET a == ParseAddress(args[1]).Address
           domain == SubSeq(a, LastIndex(a, "@") + 1, Len(a))
       IN  Contains(domain, ".") /\ ~PublicSuffix(domain).icann
    /\ ret[1] = FALSE

(***************************************************************************)
(* C18: there are no retries.  A request is sent only from inside a        *)
(* running pass; a page-number request asks for the loop's page, which is  *)
(* 1 when the pass starts and goes up by one exactly when the answer has   *)
(* status 200, decodes and is non-empty; on any other answer the program   *)
(* leaves the loop, and it sends the next request only in a new pass.  A   *)
(* Bitbucket request asks for the loop's url, which then becomes the next  *)
(* field of the answer.                                                    *)
(***************************************************************************)
\* the answer lets the loop go on to the following page
C18_GoodPage(resp) ==
    /\ ~resp.err /\ resp.status = StatusOK /\ resp.body.decodable
    /\ IF provider = "bitbucket" THEN resp.body.next # "" ELSE Len(resp.body.items) > 0

C18_RequestStep ==
    /\ CurPass.status = "running"
    /\ Len(passes') = Len(passes)
    \* the requests of Bitbucket and of GetUserID carry no page number
    /\ lastReq'.page = (IF provider = "bitbucket" \/ pc = "GetUserID" THEN 0 ELSE page)
    /\ lastReq'.url = url
    /\ IF pc # "GetUserID" /\ C18_GoodPage(lastResp')
       THEN /\ pc' = pc
            /\ IF provider = "bitbucket"
               THEN url' = lastResp'.body.next /\ CursorOf(url') > CursorOf(url)
               ELSE page' = page + 1
       ELSE /\ pc' \notin RequestPositions
            /\ ~(~lastResp'.err /\ lastResp'.status = StatusOK /\ lastResp'.body.decodable)
                   => passes'[Len(passes)].status \in {"failed", "cap"}

C18_OtherStep ==
    /\ lastReq' = lastReq
    /\ pc' \in RequestPositions =>
          /\ Len(passes') = Len(passes) + 1
          /\ passes'[Len(passes')].status = "running"
          /\ page' = 1
    /\ pc' \notin RequestPositions => Len(passes') = Len(passes)

Terminated == pc \in {"done", "exit1"}

C17_EveryRunTerminates == <>Terminated

(***************************************************************************)
(* C17: every run eventually reaches Done or a fatal exit, unless from     *)
(* some point on it stays inside one Bitbucket pagination loop, every      *)
(* answer carrying a next cursor; against a provider that hands out each   *)
(* cursor once every run terminates.                                       *)
(***************************************************************************)
InCursorLoop ==
    /\ provider = "bitbucket"
    /\ pc \in {"GetUserRepos", "ScanRepoCommits"}
    /\ url # ""

C17_TerminatesUnlessCursorsNeverEnd ==
    /\ <>Terminated \/ <>[]InCursorLoop
    /\ (~endless) => <>Terminated

\* a Bitbucket run has followed the cursor chain to its end and is done
C17_Witness ==
    /\ provider = "bitbucket" /\ pc = "done"
    /\ lastReq.url = CursorURLs[MaxCursor]
    /\ \E i \in 1..Len(passes) : Len(passes[i].served) = HistLen

(***************************************************************************)
(* C21 as stated: a commit whose timestamp does not parse as RFC 3339      *)
(* yields the same findings as it would with a parseable timestamp, each   *)
(* carrying the raw timestamp string unchanged, and the commits after it   *)
(* are processed.                                                          *)
(***************************************************************************)
\* a timestamp that parses
ParseableDate == "2024-01-02T03:04:05Z"

\* the blocks without their Date line
WithoutDates(blocks) == [j \in 1..Len(blocks) |-> [blocks[j] EXCEPT !.date = ""]]

C21_RawDateCarried(k) ==
    \A j \in 1..Len(FindingsOf(k)) : FindingsOf(k)[j].date = args[1][k].date

C21_SameFindings(k) ==
    WithoutDates(FindingsOf(k))
      = WithoutDates(ProcessCommit(provider, [args[1][k] EXCEPT !.date = ParseableDate], args[2]))

C21_NextCommitProcessed(k) ==
    k < Len(args[1]) => FindingsOf(k + 1) = ProcessCommit(provider, args[1][k + 1], args[2])

C21_UnparseableDateSameFindings ==
    Applied("ProcessCommits") =>
       \A k \in 1..Len(args[1]) :
          ~IsRFC3339(args[1][k].date) =>
             /\ C21_RawDateCarried(k)
             /\ C21_SameFindings(k)
             /\ C21_NextCommitProcessed(k)

(***************************************************************************)
(* C22: in GitLab and Bitbucket a pass over one project is all-or-nothing. *)
(* No step of the fetch loop prints a finding; a failed fetch ends the     *)
(* pass without the processing step, so a failed pass has handed nothing   *)
(* to ProcessCommits however many pages it had buffered, and the next pass *)
(* starts with an empty buffer; findings are printed only by the step      *)
(* after the loop, which is reached only on a successful last page and     *)
(* processes everything the pass was served.  In GitHub every page served  *)
(* has been handed to ProcessCommits, in a failed pass too.                *)
(***************************************************************************)
BufferedScanPositions == {"ScanProjectCommits", "ScanRepoCommits"}

\* the answer that ends a buffering loop normally
C22_LastPage(resp) ==
    /\ ~resp.err /\ resp.status = StatusOK /\ resp.body.decodable
    /\ IF provider = "gitlab" THEN Len(resp.body.items) = 0 ELSE resp.body.next = ""

C22_FetchStep ==
    /\ out' = out
    /\ passes'[Len(passes)].handed = << >>
    /\ pc' = "process" <=> C22_LastPage(lastResp')
    /\ Outcome(lastResp') # "page" =>
          /\ passes'[Len(passes)].status = "failed"
          /\ pc' \notin BufferedScanPositions

C22_State ==
    IF provider = "github"
    THEN \A i \in CommitPassIds : passes[i].handed = passes[i].served
    ELSE \A i \in CommitPassIds :
            /\ passes[i].status = "failed" => passes[i].handed = << >>
            /\ passes[i].handed # << >> =>
                  /\ passes[i].status = "ok"
                  /\ Len(passes[i].handed) = Len(passes[i].served)

C22_Step ==
    provider \in {"gitlab", "bitbucket"} =>
       /\ pc \in BufferedScanPositions => C22_FetchStep
       /\ out' # out =>
             /\ pc = "process"
             /\ CurPass.served = allCommits
             /\ out' = out \o ProcessCommits(provider,
                                ReverseIfAscending(ascending, allCommits),
                                LabelOf(CurPass))
       /\ (pc \notin BufferedScanPositions /\ pc' \in BufferedScanPositions)
             => allCommits' = << >>

C22_AllOrNothing == []C22_State /\ [][C22_Step]_vars

\* a pass failed after a page of it was buffered, printed nothing, and the
\* run went on to a pass that ended and printed
C22_Witness ==
    /\ provider \in {"gitlab", "bitbucket"}
    /\ \E i \in CommitPassIds :
          /\ passes[i].status = "failed"
          /\ Len(passes[i].served) > 0
          /\ passes[i].handed = << >>
          /\ \A j \in 1..(i - 1) : passes[j].handed = << >>
          /\ i < Len(passes) /\ Len(passes[i + 1].handed) > 0
          /\ out = ProcessCommits(provider, passes[i + 1].handed, LabelOf(passes[i + 1]))

(***************************************************************************)
(* C23: GitLab's main scans every project that is not a fork in two        *)
(* passes, ascending then descending, the second attempted whether the     *)
(* first ended or failed, and each fetching the history from page 1 into   *)
(* an empty buffer.  When both passes end and were served the same, every  *)
(* commit of the project is handed to ProcessCommits exactly twice in the  *)
(* run, once per pass, the second pass in the reverse order of the first,  *)
(* and every finding block is printed as often by one pass as by the       *)
(* other.                                                                  *)
(***************************************************************************)
\* how often x occurs in the sequence s
CountIn(s, x) == Cardinality({k \in 1..Len(s) : s[k] = x})

\* what pass i printed
PrintedBy(i) == ProcessCommits(provider, passes[i].handed, LabelOf(passes[i]))

\* the passes over the project of pass i
PassesOver(i) ==
    {j \in PassIds : passes[j].kind = "commits" /\ passes[j].repo = passes[i].repo}

\* pass i is ascending and the pass after it is the descending pass over
\* the same project
C23_Paired(i) ==
    /\ passes[i].asc
    /\ i < Len(passes) =>
          /\ passes[i + 1].kind = "commits" /\ ~passes[i + 1].asc
          /\ passes[i + 1].repo = passes[i].repo
    /\ i = Len(passes) => pc \in {"ScanProjectCommits", "process", "main_second"}
    /\ PassesOver(i) \subseteq {i, i + 1}

C23_SameCommitsTwice(i) ==
    LET first  == passes[i].handed
        second == passes[i + 1].handed
    IN  /\ passes[i].served = ServerData("commits", passes[i].repo, TRUE)
        /\ second = Rev(first)
        /\ \A k \in 1..Len(first) :
              CountIn(first, first[k]) = 1 /\ CountIn(second, first[k]) = 1
        /\ \A k \in 1..Len(PrintedBy(i)) :
              CountIn(PrintedBy(i + 1), PrintedBy(i)[k]) = CountIn(PrintedBy(i), PrintedBy(i)[k])
        /\ Len(PrintedBy(i + 1)) = Len(PrintedBy(i))

C23_TwoPassesPerProject ==
    provider = "gitlab" =>
       /\ \A i \in PassIds :
             passes[i].kind = "commits" =>
                IF passes[i].asc THEN C23_Paired(i) ELSE i > 1 /\ C23_Paired(i - 1)
       /\ \A i \in PassIds :
             (/\ passes[i].kind = "commits" /\ passes[i].asc /\ i < Len(passes)
              /\ passes[i].status = "ok" /\ passes[i + 1].status = "ok"
              /\ passes[i + 1].served = passes[i].served)
                => C23_SameCommitsTwice(i)
       /\ pc = "main_second" => CurPass.kind = "commits" /\ CurPass.asc
                                /\ CurPass.status \in {"ok", "failed"}
       /\ pc = "done" => ScanOrder = ExpectedScans(provider, repos)
       /\ out = Flatten([i \in PassIds |-> PrintedBy(i)])

\* a run has ended in which the ascending pass over one project failed and
\* its descending pass ended, and both passes over another project ended
\* with findings
C23_Witness ==
    /\ provider = "gitlab" /\ pc = "done"
    /\ \E i \in PassIds :
          /\ passes[i].kind = "commits" /\ passes[i].asc /\ passes[i].status = "failed"
          /\ passes[i + 1].status = "ok" /\ Len(passes[i + 1].handed) = HistLen
    /\ \E i \in PassIds :
          /\ passes[i].kind = "commits" /\ passes[i].asc /\ passes[i].status = "ok"
          /\ passes[i + 1].status = "ok" /\ Len(passes[i].handed) = HistLen
          /\ Len(PrintedBy(i)) > 1
          /\ PrintedBy(i + 1) # PrintedBy(i)

====
